---- MODULE Spec2Model ----
(***************************************************************************)
(* Model of src/1.py: InteractiveRenewableEnergyGenAI.                     *)
(*                                                                         *)
(* Texts typed at a prompt are sequences of one-character strings; the     *)
(* character SUP2 stands for U+00B2 (superscript two) and TAB for U+0009.  *)
(* Python floats are records [k, v]: k = "fin" with v a scaled integer, or *)
(* k in {"inf", "ninf", "nan"} with v = 0.  Scales (fixed point):          *)
(*   avg_demand, peak_demand, avg_ghi, avg_wind_speed   1/10               *)
(*   adjustment (type factor)                           1/100              *)
(*   pv_r2, wind_r2                                     1/1000             *)
(*   ghi_factor 1/4000, wind_factor 1/30                                   *)
(*   cost_reduction_percent, monthly_savings_inr, peak_reduction  1/10^5   *)
(*   co2_reduction_tons 1/10^4, diesel_displacement_liters 1/10^3          *)
(*   reliability_improvement, payback_months 1/10^3                        *)
(*   renewable_penetration 1/(4*10^6)                                      *)
(***************************************************************************)
EXTENDS Integers, Sequences, FiniteSets, TLC

VARIABLES pc, community_data, raw, prompts, answered, error,
          locals, personalized_metrics, report, started, completed,
          shown, saved, earlier

vars == <<pc, community_data, raw, prompts, answered, error,
          locals, personalized_metrics, report, started, completed,
          shown, saved, earlier>>

\* ------------------------------------------------------------------ bounds

\* direct calls of calculate_personalized_impact use avg_demand = k * 2500,
\* k in -1 .. MaxDemandK
MaxDemandK == 12

\* ... and avg_ghi = k * 100, k in -1 .. MaxGhiK
MaxGhiK == 7

\* ------------------------------------------------------------ characters

WS == {" ", "TAB"}

DecimalDigits == {"0", "1", "2", "3", "4", "5", "6", "7", "8", "9"}

\* characters for which str.isdigit() is true: the decimal digits and the
\* superscript digits (Numeric_Type=Digit), of which SUP2 is one
DigitChars == DecimalDigits \cup {"SUP2"}

DigitVal(c) ==
    CASE c = "0" -> 0 [] c = "1" -> 1 [] c = "2" -> 2 [] c = "3" -> 3
      [] c = "4" -> 4 [] c = "5" -> 5 [] c = "6" -> 6 [] c = "7" -> 7
      [] c = "8" -> 8 [] c = "9" -> 9

Lower(c) ==
    CASE c = "I" -> "i" [] c = "N" -> "n" [] c = "F" -> "f" [] c = "A" -> "a"
      [] OTHER -> c

\* ---------------------------------------------------------------- str ops

RECURSIVE LStrip(_)
LStrip(t) == IF t # <<>> /\ Head(t) \in WS THEN LStrip(Tail(t)) ELSE t

RECURSIVE RStrip(_)
RStrip(t) ==
    IF t # <<>> /\ t[Len(t)] \in WS THEN RStrip(SubSeq(t, 1, Len(t) - 1)) ELSE t

\* a mutant of Strip: strips nothing
StripNothing(t) == t

\* str.strip()
Strip(t) == RStrip(LStrip(t))

\* s or d   (an empty str is falsy)
OrDefault(s, d) == IF s = <<>> THEN d ELSE s

\* str.isdigit()
IsDigit(t) == t # <<>> /\ \A i \in 1..Len(t) : t[i] \in DigitChars

RECURSIVE DigitsValue(_)
DigitsValue(t) ==
    IF t = <<>> THEN 0
    ELSE 10 * DigitsValue(SubSeq(t, 1, Len(t) - 1)) + DigitVal(t[Len(t)])

AllDecimal(t) == t # <<>> /\ \A i \in 1..Len(t) : t[i] \in DecimalDigits

\* int(t) for a text without sign or underscores: only decimal digits parse
IntOf(t) ==
    LET s == Strip(t) IN
    IF AllDecimal(s) THEN [ok |-> TRUE, v |-> DigitsValue(s)]
    ELSE [ok |-> FALSE, v |-> 0]

\* ------------------------------------------------------------------ floats

Fin(n) == [k |-> "fin", v |-> n]
Inf == [k |-> "inf", v |-> 0]
NInf == [k |-> "ninf", v |-> 0]
NaN == [k |-> "nan", v |-> 0]

Neg(x) ==
    CASE x.k = "fin" -> Fin(0 - x.v)
      [] x.k = "inf" -> NInf
      [] x.k = "ninf" -> Inf
      [] OTHER -> x

LowerAll(t) == [i \in 1..Len(t) |-> Lower(t[i])]

\* index of the first "." of t, or 0
DotAt(t) ==
    IF \E i \in 1..Len(t) : t[i] = "."
    THEN CHOOSE i \in 1..Len(t) : t[i] = "." /\ \A j \in 1..(i - 1) : t[j] # "."
    ELSE 0

\* the unsigned part of a float literal, in tenths: digits, digits.digits,
\* digits. or .digits (one fractional digit is kept: the texts typed here
\* have no more), or inf / infinity / nan in any case
UnsignedFloat(t) ==
    LET w == LowerAll(t)
        d == DotAt(t)
        ip == IF d = 0 THEN t ELSE SubSeq(t, 1, d - 1)
        fp == IF d = 0 THEN <<>> ELSE SubSeq(t, d + 1, Len(t))
        digits(s) == \A i \in 1..Len(s) : s[i] \in DecimalDigits
    IN  IF w = <<"i", "n", "f">>
           \/ w = <<"i", "n", "f", "i", "n", "i", "t", "y">>
        THEN [ok |-> TRUE, val |-> Inf]
        ELSE IF w = <<"n", "a", "n">>
        THEN [ok |-> TRUE, val |-> NaN]
        ELSE IF digits(ip) /\ digits(fp) /\ Len(ip) + Len(fp) > 0 /\ Len(fp) <= 1
        THEN [ok |-> TRUE,
              val |-> Fin(10 * DigitsValue(ip)
                          + (IF fp = <<>> THEN 0 ELSE DigitVal(fp[1])))]
        ELSE [ok |-> FALSE, val |-> NaN]

\* a mutant of FloatOf: text that is no float literal parses as 0.0
FloatOfLenient(t) ==
    LET s == Strip(t)
        signed == s # <<>> /\ s[1] \in {"-", "+"}
        u == UnsignedFloat(IF signed THEN Tail(s) ELSE s)
    IN  IF ~u.ok THEN [ok |-> TRUE, val |-> Fin(0)]
        ELSE IF signed /\ s[1] = "-" THEN [ok |-> TRUE, val |-> Neg(u.val)]
        ELSE u

\* float(t): ok = FALSE is ValueError
FloatOf(t) ==
    LET s == Strip(t)
        signed == s # <<>> /\ s[1] \in {"-", "+"}
        u == UnsignedFloat(IF signed THEN Tail(s) ELSE s)
    IN  IF ~u.ok THEN [ok |-> FALSE, val |-> NaN]
        ELSE IF signed /\ s[1] = "-" THEN [ok |-> TRUE, val |-> Neg(u.val)]
        ELSE u

\* ------------------------------------------------------ float arithmetic

\* x < y on Python floats (every comparison with nan is false)
FLess(x, y) ==
    CASE x.k = "nan" \/ y.k = "nan" -> FALSE
      [] x.k = "ninf" -> y.k # "ninf"
      [] x.k = "inf" -> FALSE
      [] y.k = "inf" -> TRUE
      [] y.k = "ninf" -> FALSE
      [] OTHER -> x.v < y.v

\* x * c for a finite constant c > 0 (the product's scale is the product of
\* the scales)
FTimes(x, c) == IF x.k = "fin" THEN Fin(x.v * c) ELSE x

\* min(a, b): the first argument unless the second is smaller
PyMin(a, b) == IF FLess(b, a) THEN b ELSE a

\* max(a, b): the first argument unless the second is larger
PyMax(a, b) == IF FLess(a, b) THEN b ELSE a

\* n / d truncated toward zero (d > 0)
TruncDiv(n, d) == IF n >= 0 THEN n \div d ELSE 0 - ((0 - n) \div d)

\* ---------------------------------------------------------- __init__

pv_r2 == 983
wind_r2 == 965
pv_mae == 367709
wind_mae == 178476

\* the keys of community_templates, in insertion order
TemplateKeys ==
    <<"rural_agricultural", "urban_mixed", "industrial_zone", "coastal_area">>

\* ------------------------------------------- calculate_personalized_impact

\* a mutant of TypeFactor: the fallback for an unknown type is 1.1
TypeFactorBadDefault(type) ==
    CASE type = "rural_agricultural" -> 100
      [] type = "urban_mixed" -> 115
      [] type = "industrial_zone" -> 125
      [] OTHER -> 110

\* type_factors.get(type, 1.0), in hundredths
TypeFactor(type) ==
    CASE type = "rural_agricultural" -> 100
      [] type = "urban_mixed" -> 115
      [] type = "industrial_zone" -> 125
      [] type = "coastal_area" -> 110
      [] OTHER -> 100

\* min(1.5, avg_ghi / 400), in 1/4000: avg_ghi in tenths is avg_ghi / 400
\* in 1/4000, and 1.5 is 6000
GhiFactor(avg_ghi) == PyMin(Fin(6000), avg_ghi)

\* min(1.8, avg_wind_speed / 3.0), in 1/30: 1.8 is 54
WindFactor(avg_wind_speed) == PyMin(Fin(54), avg_wind_speed)

\* int(x) of a float in 1/unit: OverflowError on an infinity, ValueError on
\* nan, else truncation toward zero
IntOfFloat(x, unit) ==
    CASE x.k = "fin" -> [ok |-> TRUE, exc |-> "", v |-> TruncDiv(x.v, unit)]
      [] x.k = "nan" -> [ok |-> FALSE, exc |-> "ValueError", v |-> 0]
      [] OTHER -> [ok |-> FALSE, exc |-> "OverflowError", v |-> 0]

\* a mutant of JobsCreated: the minimum of 3 is not applied
JobsCreatedNoMinimum(avg_demand) == IntOfFloat(avg_demand, 50000)

\* max(3, int(avg_demand / 5000)): avg_demand is in tenths
JobsCreated(avg_demand) ==
    LET n == IntOfFloat(avg_demand, 50000)
    IN  IF n.ok THEN [n EXCEPT !.v = IF 3 < n.v THEN n.v ELSE 3] ELSE n

\* a mutant of PaybackMonths: min for max
PaybackMonthsMin == PyMin(Fin(18000), Fin(36000 - pv_r2 * 12))

\* max(18, 36 - pv_r2 * 12), in thousandths
PaybackMonths == PyMax(Fin(18000), Fin(36000 - pv_r2 * 12))

NoMetrics == [set |-> FALSE]

\* a mutant of RenewablePenetration: the wind share is weighted by wind_factor
RenewablePenetrationWithWind(ghi_factor, wind_factor) ==
    IF ghi_factor.k = "fin" /\ wind_factor.k = "fin"
    THEN Fin(ghi_factor.v * pv_r2 * 40 + wind_factor.v * wind_r2 * 4000)
    ELSE FTimes(ghi_factor, pv_r2 * 40 + wind_r2 * 30)

\* line 180: (pv_r2 * 40 + wind_r2 * 30) * ghi_factor; wind_factor, computed
\* at line 170, is not read
RenewablePenetration(ghi_factor, wind_factor) ==
    FTimes(ghi_factor, pv_r2 * 40 + wind_r2 * 30)

\* the dict literal of lines 173-196; raises when int() does
calculate_personalized_impact(cd) ==
    LET adjustment == TypeFactor(cd.type)
        ghi_factor == GhiFactor(cd.avg_ghi)
        wind_factor == WindFactor(cd.avg_wind_speed)
        jobs == JobsCreated(cd.avg_demand)
        lcl == [adjustment |-> adjustment, ghi_factor |-> ghi_factor,
                wind_factor |-> wind_factor]
    IN  IF ~jobs.ok
        THEN [ok |-> FALSE, exc |-> jobs.exc, locals |-> lcl,
              metrics |-> NoMetrics]
        ELSE [ok |-> TRUE, exc |-> "", locals |-> lcl, metrics |->
              [set |-> TRUE,
               cost_reduction_percent |->
                   Fin((pv_r2 * 25 + wind_r2 * 15) * adjustment),
               monthly_savings_inr |-> FTimes(cd.avg_demand, 12 * adjustment),
               reliability_improvement |-> Fin((pv_r2 + wind_r2) * 45),
               renewable_penetration |->
                   RenewablePenetration(ghi_factor, wind_factor),
               peak_reduction |-> Fin(pv_r2 * 20 * adjustment),
               co2_reduction_tons |-> FTimes(cd.avg_demand, 8 * adjustment),
               diesel_displacement_liters |->
                   FTimes(cd.avg_demand, 15 * adjustment),
               jobs_created |-> jobs.v,
               payback_months |-> PaybackMonths,
               prediction_accuracy_pv |-> Fin(pv_r2),
               prediction_accuracy_wind |-> Fin(wind_r2),
               prediction_error_pv |-> Fin(pv_mae),
               prediction_error_wind |-> Fin(wind_mae)]]

\* ------------------------------------------------------------- the prompts

\* the responses typed at the prompts
BlankTexts == {<<>>, <<" ">>, <<" ", "TAB">>}
NameTexts == BlankTexts \cup {<<" ", "G", " ", "V", " ">>}
RegionTexts == BlankTexts \cup {<<"R", "J">>}
TypeTexts ==
    BlankTexts \cup {<<"2">>, <<"7">>, <<"0">>, <<"x">>, <<"-", "1">>, <<"SUP2">>}
PopulationTexts == BlankTexts \cup {<<"5", "0", "0">>}
NotNumberTexts ==
    {<<"a", "b", "c">>, <<"3", "5", ",", "0", "0", "0">>, <<"-">>, <<"1", " ", "2">>}
DemandTexts ==
    BlankTexts \cup NotNumberTexts
    \cup {<<"-", "5", "0", "0", "0">>, <<"i", "n", "f">>, <<"N", "a", "N">>}
PeakTexts == BlankTexts \cup NotNumberTexts \cup {<<"4", "0", "0", "0", "0">>}
GhiTexts ==
    BlankTexts \cup NotNumberTexts \cup {<<"-", "4", "0", "0">>, <<"8", "0", "0">>}
WindTexts == BlankTexts \cup NotNumberTexts \cup {<<"9", ".", "5">>}
SeasonTexts == BlankTexts \cup {<<"1">>, <<"9">>, <<"x">>}
ChallengeTexts == BlankTexts \cup {<<" ", "5">>, <<"0">>, <<"SUP2">>}
SpecialTexts == BlankTexts \cup {<<"I", "C", "U">>}

\* what was typed, as the user sees it: nothing but white space, text that is
\* no number, or anything else
ClassOf(t) ==
    IF \A i \in 1..Len(t) : t[i] \in {" ", "TAB"} THEN "blank"
    ELSE IF t \in NotNumberTexts THEN "junk"
    ELSE "given"

\* the literal defaults of get_user_input
DefaultName ==
    <<"S", "a", "m", "p", "l", "e", " ", "C", "o", "m", "m", "u", "n", "i", "t", "y">>
DefaultRegion ==
    <<"U", "n", "k", "n", "o", "w", "n", " ", "R", "e", "g", "i", "o", "n">>
DefaultPopulation == <<"1", "0", ",", "0", "0", "0">>
DefaultAvgDemand == <<"2", "2", "0", "0", "0">>
DefaultPeakDemand == <<"3", "5", "0", "0", "0">>
DefaultAvgGhi == <<"4", "0", "0">>
DefaultAvgWind == <<"3", ".", "0">>
DefaultSeason == <<"4">>
DefaultChallenge == <<"2">>
DefaultSpecialNeeds ==
    <<"G", "e", "n", "e", "r", "a", "l", " ", "c", "o", "m", "m", "u", "n", "i", "t", "y",
      " ", "n", "e", "e", "d", "s">>

\* season_patterns.get(key, 'Balanced across seasons')
SeasonPattern(key) ==
    CASE key = <<"1">> -> "Winter dominant (Low solar, stable demand)"
      [] key = <<"2">> -> "Summer dominant (High solar, high cooling demand)"
      [] key = <<"3">> -> "Monsoon dominant (Variable solar, moderate demand)"
      [] key = <<"4">> -> "Balanced across seasons"
      [] OTHER -> "Balanced across seasons"

\* challenges.get(key, 'Unreliable grid supply')
Challenge(key) ==
    CASE key = <<"1">> -> "High energy costs"
      [] key = <<"2">> -> "Unreliable grid supply"
      [] key = <<"3">> -> "Peak demand management"
      [] key = <<"4">> -> "Renewable integration"
      [] key = <<"5">> -> "Multiple energy challenges"
      [] OTHER -> "Unreliable grid supply"

\* lines 77-83: the community type of a stripped response; ok = FALSE is the
\* ValueError of int() on a text that isdigit() accepts
CommunityType(type_choice) ==
    IF IsDigit(type_choice)
    THEN LET n == IntOf(type_choice)
         IN  IF ~n.ok THEN [ok |-> FALSE, type |-> ""]
             ELSE IF 1 <= n.v /\ n.v <= Len(TemplateKeys)
             THEN [ok |-> TRUE, type |-> TemplateKeys[n.v]]
             ELSE [ok |-> TRUE, type |-> "rural_agricultural"]
    ELSE [ok |-> TRUE, type |-> "rural_agricultural"]

\* ------------------------------------------------------------------ state

NoReport == [set |-> FALSE]
NoError == [exc |-> "", stage |-> ""]
NoLocals == [set |-> FALSE]

\* no earlier call of calculate_personalized_impact whose result is kept
NoCall == [set |-> FALSE]

Init ==
    /\ pc = "name"
    /\ community_data = <<>>
    /\ raw = <<>>
    /\ prompts = <<>>
    /\ answered = <<>>
    /\ error = NoError
    /\ locals = NoLocals
    /\ personalized_metrics = NoMetrics
    /\ report = NoReport
    /\ started = <<>>
    /\ completed = <<>>
    /\ shown = FALSE
    /\ saved = FALSE
    /\ earlier = NoCall

\* an uncaught exception ends the run
Raise(exc, stage) ==
    /\ pc' = "raised"
    /\ error' = [exc |-> exc, stage |-> stage]

\* input(prompt): the prompt is written and a line is read
Input(prompt, t) ==
    /\ prompts' = Append(prompts, prompt)
    /\ answered' = Append(answered, ClassOf(t))

Rest == <<locals, personalized_metrics, report, shown, saved, earlier>>

\* ---------------------------------------------------------- get_user_input

\* lines 418-429 and 60-67: the run starts, get_user_input asks the name
AskName ==
    /\ pc = "name"
    /\ \E t \in NameTexts :
        /\ Input("name", t)
        /\ community_data' = [name |-> OrDefault(Strip(t), DefaultName)]
    /\ started' = Append(started, "input")
    /\ pc' = "region"
    /\ UNCHANGED <<raw, error, completed, Rest>>

\* line 68
AskRegion ==
    /\ pc = "region"
    /\ \E t \in RegionTexts :
        /\ Input("region", t)
        /\ community_data' =
             community_data @@ [region |-> OrDefault(Strip(t), DefaultRegion)]
    /\ pc' = "type"
    /\ UNCHANGED <<raw, error, started, completed, Rest>>

\* lines 71-83
AskType ==
    /\ pc = "type"
    /\ \E t \in TypeTexts :
        /\ Input("type", t)
        /\ LET c == CommunityType(Strip(t))
           IN  IF c.ok
               THEN /\ community_data' = community_data @@ [type |-> c.type]
                    /\ pc' = "population"
                    /\ UNCHANGED error
               ELSE /\ Raise("ValueError", "input")
                    /\ UNCHANGED community_data
    /\ UNCHANGED <<raw, started, completed, Rest>>

\* line 86
AskPopulation ==
    /\ pc = "population"
    /\ \E t \in PopulationTexts :
        /\ Input("population", t)
        /\ community_data' =
             community_data @@ [population |-> OrDefault(Strip(t), DefaultPopulation)]
    /\ pc' = "avg_demand"
    /\ UNCHANGED <<raw, error, started, completed, Rest>>

\* lines 89-92: the response is kept as text
AskAvgDemand ==
    /\ pc = "avg_demand"
    /\ \E t \in DemandTexts :
        /\ Input("avg_demand", t)
        /\ raw' = [avg_demand |-> OrDefault(Strip(t), DefaultAvgDemand)]
    /\ pc' = "peak_demand"
    /\ UNCHANGED <<community_data, error, started, completed, Rest>>

\* lines 93-95: the peak is asked, then both texts are converted
AskPeakDemand ==
    /\ pc = "peak_demand"
    /\ \E t \in PeakTexts :
        /\ Input("peak_demand", t)
        /\ LET peak_demand == OrDefault(Strip(t), DefaultPeakDemand)
               a == FloatOf(raw.avg_demand)
               p == FloatOf(peak_demand)
           IN  IF a.ok /\ p.ok
               THEN /\ community_data' =
                         community_data @@ [avg_demand |-> a.val, peak_demand |-> p.val]
                    /\ pc' = "avg_ghi"
                    /\ UNCHANGED error
               ELSE /\ Raise("ValueError", "input")
                    /\ community_data' =
                         IF a.ok THEN community_data @@ [avg_demand |-> a.val]
                         ELSE community_data
    /\ raw' = <<>>
    /\ UNCHANGED <<started, completed, Rest>>

\* lines 98-100
AskAvgGhi ==
    /\ pc = "avg_ghi"
    /\ \E t \in GhiTexts :
        /\ Input("avg_ghi", t)
        /\ raw' = [avg_ghi |-> OrDefault(Strip(t), DefaultAvgGhi)]
    /\ pc' = "avg_wind_speed"
    /\ UNCHANGED <<community_data, error, started, completed, Rest>>

\* lines 102-107
AskAvgWind ==
    /\ pc = "avg_wind_speed"
    /\ \E t \in WindTexts :
        /\ Input("avg_wind_speed", t)
        /\ LET avg_wind == OrDefault(Strip(t), DefaultAvgWind)
               g == FloatOf(raw.avg_ghi)
               w == FloatOf(avg_wind)
           IN  IF g.ok /\ w.ok
               THEN /\ community_data' =
                         community_data @@ [avg_ghi |-> g.val, avg_wind_speed |-> w.val]
                    /\ pc' = "season"
                    /\ UNCHANGED error
               ELSE /\ Raise("ValueError", "input")
                    /\ community_data' =
                         IF g.ok THEN community_data @@ [avg_ghi |-> g.val]
                         ELSE community_data
    /\ raw' = <<>>
    /\ UNCHANGED <<started, completed, Rest>>

\* lines 110-123
AskSeason ==
    /\ pc = "season"
    /\ \E t \in SeasonTexts :
        /\ Input("season_pattern", t)
        /\ community_data' =
             community_data
             @@ [season_pattern |-> SeasonPattern(OrDefault(Strip(t), DefaultSeason))]
    /\ pc' = "challenge"
    /\ UNCHANGED <<raw, error, started, completed, Rest>>

\* lines 126-141
AskChallenge ==
    /\ pc = "challenge"
    /\ \E t \in ChallengeTexts :
        /\ Input("main_challenge", t)
        /\ community_data' =
             community_data
             @@ [main_challenge |-> Challenge(OrDefault(Strip(t), DefaultChallenge))]
    /\ pc' = "special"
    /\ UNCHANGED <<raw, error, started, completed, Rest>>

\* lines 144-147: the last prompt; get_user_input returns
AskSpecial ==
    /\ pc = "special"
    /\ \E t \in SpecialTexts :
        /\ Input("special_needs", t)
        /\ community_data' =
             community_data
             @@ [special_needs |-> OrDefault(Strip(t), DefaultSpecialNeeds)]
    /\ completed' = Append(completed, "input")
    /\ pc' = "calc"
    /\ UNCHANGED <<raw, error, started, Rest>>

\* ------------------------------------------------- run_interactive_report

\* ------------------------------------------------------------ formatting

Upper(c) ==
    CASE c = "a" -> "A" [] c = "b" -> "B" [] c = "c" -> "C" [] c = "d" -> "D"
      [] c = "e" -> "E" [] c = "f" -> "F" [] c = "g" -> "G" [] c = "h" -> "H"
      [] c = "i" -> "I" [] c = "j" -> "J" [] c = "k" -> "K" [] c = "l" -> "L"
      [] c = "m" -> "M" [] c = "n" -> "N" [] c = "o" -> "O" [] c = "p" -> "P"
      [] c = "q" -> "Q" [] c = "r" -> "R" [] c = "s" -> "S" [] c = "t" -> "T"
      [] c = "u" -> "U" [] c = "v" -> "V" [] c = "w" -> "W" [] c = "x" -> "X"
      [] c = "y" -> "Y" [] c = "z" -> "Z" [] OTHER -> c

\* str.upper()
UpperAll(t) == [i \in 1..Len(t) |-> Upper(t[i])]

\* type.replace('_', ' ').title() and type.replace('_', ' ')
TypeTitle(type) ==
    CASE type = "rural_agricultural" -> "Rural Agricultural"
      [] type = "urban_mixed" -> "Urban Mixed"
      [] type = "industrial_zone" -> "Industrial Zone"
      [] type = "coastal_area" -> "Coastal Area"

TypeWords(type) ==
    CASE type = "rural_agricultural" -> "rural agricultural"
      [] type = "urban_mixed" -> "urban mixed"
      [] type = "industrial_zone" -> "industrial zone"
      [] type = "coastal_area" -> "coastal area"

\* n / d rounded to the nearest integer, ties to even (d > 0)
RoundHalfEven(n, d) ==
    LET q == n \div d
        r == n % d
    IN  IF 2 * r < d THEN q
        ELSE IF 2 * r > d THEN q + 1
        ELSE IF q % 2 = 0 THEN q ELSE q + 1

\* the units per 1 of a float of the model
ScaleOf(key) ==
    CASE key \in {"cost_reduction_percent", "monthly_savings_inr", "peak_reduction"}
           -> 100000
      [] key = "co2_reduction_tons" -> 10000
      [] key = "renewable_penetration" -> 4000000
      [] key \in {"avg_demand", "peak_demand", "avg_ghi", "avg_wind_speed"} -> 10
      [] OTHER -> 1000

\* a formatted number: n / 10^decimals, with its suffix; an infinity or nan
\* is spelled out
Number(n, decimals, grouped, suffix) ==
    [special |-> "", n |-> n, decimals |-> decimals, grouped |-> grouped,
     suffix |-> suffix]

Special(x, suffix) ==
    [special |-> (IF x.k = "ninf" THEN "-inf" ELSE x.k), n |-> 0, decimals |-> 0,
     grouped |-> FALSE, suffix |-> suffix]

\* format(x, fmt) of a float x in 1/scale, for the format specifications of
\* the templates; "" is str(x)
FormatFloat(x, scale, fmt) ==
    CASE x.k # "fin" -> Special(x, IF fmt = ".1%" THEN "%" ELSE "")
      [] fmt = ".0f" -> Number(RoundHalfEven(x.v, scale), 0, FALSE, "")
      [] fmt = ",.0f" -> Number(RoundHalfEven(x.v, scale), 0, TRUE, "")
      [] fmt = ".1%" -> Number(RoundHalfEven(x.v * 1000, scale), 1, FALSE, "%")
      [] fmt = ".3f" -> Number(RoundHalfEven(x.v * 1000, scale), 3, FALSE, "")
      [] fmt = "" -> Number(RoundHalfEven(x.v * 10, scale), 1, FALSE, "")

\* ---------------------------------------------------------- the templates

Slot(src, key, fmt) == [src |-> src, key |-> key, fmt |-> fmt]

\* a mutant of TechnicalAnalysisSlots: the load-shifting line is missing
TechnicalAnalysisSlotsNoPeak ==
    <<Slot("profile", "name", "upper"),
      Slot("metrics", "prediction_accuracy_pv", ".1%"),
      Slot("metrics", "prediction_accuracy_pv", ".3f"),
      Slot("metrics", "prediction_accuracy_wind", ".1%"),
      Slot("metrics", "prediction_accuracy_wind", ".3f"),
      Slot("metrics", "prediction_error_pv", ".0f"),
      Slot("metrics", "prediction_error_wind", ".0f"),
      Slot("profile", "season_pattern", ""),
      Slot("profile", "avg_ghi", ""),
      Slot("profile", "avg_wind_speed", ""),
      Slot("metrics", "renewable_penetration", ".0f")>>

\* the replacement fields of generate_technical_analysis, lines 203-224
TechnicalAnalysisSlots ==
    <<Slot("profile", "name", "upper"),
      Slot("metrics", "prediction_accuracy_pv", ".1%"),
      Slot("metrics", "prediction_accuracy_pv", ".3f"),
      Slot("metrics", "prediction_accuracy_wind", ".1%"),
      Slot("metrics", "prediction_accuracy_wind", ".3f"),
      Slot("metrics", "prediction_error_pv", ".0f"),
      Slot("metrics", "prediction_error_wind", ".0f"),
      Slot("profile", "season_pattern", ""),
      Slot("profile", "avg_ghi", ""),
      Slot("profile", "avg_wind_speed", ""),
      Slot("metrics", "peak_reduction", ".0f"),
      Slot("metrics", "renewable_penetration", ".0f")>>

\* the replacement fields of generate_ai_report before line 281
ReportSlotsHead ==
    <<Slot("profile", "name", ""),
      Slot("profile", "region", ""),
      Slot("profile", "population", ""),
      Slot("profile", "type", "title"),
      Slot("profile", "season_pattern", ""),
      Slot("profile", "name", ""),
      Slot("metrics", "cost_reduction_percent", ".0f"),
      Slot("metrics", "monthly_savings_inr", ",.0f"),
      Slot("metrics", "co2_reduction_tons", ",.0f"),
      Slot("metrics", "reliability_improvement", ".0f"),
      Slot("metrics", "jobs_created", ""),
      Slot("profile", "avg_demand", ",.0f"),
      Slot("profile", "peak_demand", ",.0f"),
      Slot("profile", "avg_ghi", ""),
      Slot("profile", "avg_wind_speed", ""),
      Slot("profile", "main_challenge", ""),
      Slot("metrics", "prediction_accuracy_pv", ".1%"),
      Slot("metrics", "prediction_accuracy_wind", ".1%"),
      Slot("expr", "combined_reliability", ".1%"),
      Slot("metrics", "renewable_penetration", ".0f")>>

\* the replacement fields of generate_ai_report after line 281
ReportSlotsTail ==
    <<Slot("metrics", "cost_reduction_percent", ".0f"),
      Slot("metrics", "reliability_improvement", ".0f"),
      Slot("metrics", "diesel_displacement_liters", ",.0f"),
      Slot("metrics", "co2_reduction_tons", ",.0f"),
      Slot("metrics", "jobs_created", ""),
      Slot("metrics", "renewable_penetration", ".0f"),
      Slot("profile", "name", "upper"),
      Slot("metrics", "payback_months", ".0f"),
      Slot("expr", "roi", ".0f"),
      Slot("metrics", "monthly_savings_inr", ",.0f"),
      Slot("metrics", "jobs_created", ""),
      Slot("metrics", "renewable_penetration", ".0f"),
      Slot("metrics", "jobs_created", ""),
      Slot("metrics", "co2_reduction_tons", ",.0f"),
      Slot("profile", "type", "words"),
      Slot("model", "pv_r2", ".1%"),
      Slot("model", "wind_r2", ".1%"),
      Slot("profile", "name", ""),
      Slot("clock", "now", "%Y-%m-%d %H:%M")>>

\* line 281 embeds the technical analysis between the two parts
ReportSlots == ReportSlotsHead \o TechnicalAnalysisSlots \o ReportSlotsTail

MetricKeysOf(slots) ==
    {slots[i].key : i \in {j \in 1..Len(slots) : slots[j].src = "metrics"}}

\* the metrics generate_technical_analysis interpolates (lines 207-221)
TechnicalAnalysisKeys == MetricKeysOf(TechnicalAnalysisSlots)

\* the metrics generate_ai_report interpolates (lines 245-325), with those of
\* the technical analysis it embeds (line 281)
ReportKeys == MetricKeysOf(ReportSlots)

\* the text a replacement field becomes
RenderSlot(slot, cd, m) ==
    LET text ==
        CASE slot.src = "metrics" /\ slot.key = "jobs_created" ->
               Number(m.jobs_created, 0, FALSE, "")
          [] slot.src = "metrics" ->
               FormatFloat(m[slot.key], ScaleOf(slot.key), slot.fmt)
          [] slot.src = "expr" /\ slot.key = "combined_reliability" ->
               FormatFloat(Fin(m.prediction_accuracy_pv.v + m.prediction_accuracy_wind.v),
                           2 * ScaleOf("prediction_accuracy_pv"), slot.fmt)
          [] slot.src = "expr" /\ slot.key = "roi" ->
               FormatFloat(FTimes(m.cost_reduction_percent, 3),
                           ScaleOf("cost_reduction_percent"), slot.fmt)
          [] slot.src = "model" /\ slot.key = "pv_r2" ->
               FormatFloat(Fin(pv_r2), 1000, slot.fmt)
          [] slot.src = "model" /\ slot.key = "wind_r2" ->
               FormatFloat(Fin(wind_r2), 1000, slot.fmt)
          [] slot.src = "clock" -> "datetime.now()"
          [] slot.src = "profile" /\ slot.fmt = "upper" -> UpperAll(cd[slot.key])
          [] slot.src = "profile" /\ slot.fmt = "title" -> TypeTitle(cd[slot.key])
          [] slot.src = "profile" /\ slot.fmt = "words" -> TypeWords(cd[slot.key])
          [] slot.src = "profile"
             /\ slot.key \in {"avg_demand", "peak_demand", "avg_ghi", "avg_wind_speed"} ->
               FormatFloat(cd[slot.key], ScaleOf(slot.key), slot.fmt)
          [] OTHER -> cd[slot.key]
    IN  [src |-> slot.src, key |-> slot.key, fmt |-> slot.fmt, text |-> text]

\* generate_ai_report(community_data, personalized_metrics): the replacement
\* fields of the template, rendered in order
generate_ai_report(cd, m) == [i \in 1..Len(ReportSlots) |-> RenderSlot(ReportSlots[i], cd, m)]

\* a mutant of StageAfter: the report is saved before the dashboard is drawn
StageAfterSaveFirst(stage) ==
    CASE stage = "calc" -> "report"
      [] stage = "report" -> "write"
      [] stage = "write" -> "dashboard"
      [] stage = "dashboard" -> "done"

\* the statement that follows a stage of lines 432-453
StageAfter(stage) ==
    CASE stage = "calc" -> "report"
      [] stage = "report" -> "dashboard"
      [] stage = "dashboard" -> "write"
      [] stage = "write" -> "done"

\* lines 431-433
Calculate ==
    /\ pc = "calc"
    /\ started' = Append(started, "calc")
    /\ LET r == calculate_personalized_impact(community_data)
       IN  /\ locals' = [set |-> TRUE] @@ r.locals
           /\ IF r.ok
              THEN /\ personalized_metrics' = r.metrics
                   /\ completed' = Append(completed, "calc")
                   /\ pc' = StageAfter("calc")
                   /\ UNCHANGED error
              ELSE /\ Raise(r.exc, "calc")
                   /\ UNCHANGED <<personalized_metrics, completed>>
    /\ UNCHANGED <<community_data, raw, prompts, answered, earlier, report, shown, saved>>

\* lines 435-443: the report is rendered and printed
GenerateReport ==
    /\ pc = "report"
    /\ started' = Append(started, "report")
    /\ report' = [set |-> TRUE, interpolated |-> ReportKeys,
                  name |-> community_data.name,
                  slots |-> generate_ai_report(community_data, personalized_metrics)]
    /\ completed' = Append(completed, "report")
    /\ pc' = StageAfter("report")
    /\ UNCHANGED <<community_data, raw, prompts, answered, earlier, error, locals,
                   personalized_metrics, shown, saved>>

\* lines 445-447: matplotlib draws and shows the figure, or raises
Dashboard ==
    /\ pc = "dashboard"
    /\ started' = Append(started, "dashboard")
    /\ \E drawn \in BOOLEAN :
        IF drawn
        THEN /\ shown' = TRUE
             /\ completed' = Append(completed, "dashboard")
             /\ pc' = StageAfter("dashboard")
             /\ UNCHANGED error
        ELSE /\ Raise("Exception", "dashboard")
             /\ UNCHANGED <<shown, completed>>
    /\ UNCHANGED <<community_data, raw, prompts, answered, earlier, locals,
                   personalized_metrics, report, saved>>

\* lines 449-456: the file is opened and written, or open() raises
SaveReport ==
    /\ pc = "write"
    /\ started' = Append(started, "write")
    /\ \E opened \in BOOLEAN :
        IF opened
        THEN /\ saved' = TRUE
             /\ completed' = Append(completed, "write")
             /\ pc' = StageAfter("write")
             /\ UNCHANGED error
        ELSE /\ Raise("OSError", "write")
             /\ UNCHANGED <<saved, completed>>
    /\ UNCHANGED <<community_data, raw, prompts, answered, earlier, locals,
                   personalized_metrics, report, shown>>

Next ==
    \/ AskName
    \/ AskRegion
    \/ AskType
    \/ AskPopulation
    \/ AskAvgDemand
    \/ AskPeakDemand
    \/ AskAvgGhi
    \/ AskAvgWind
    \/ AskSeason
    \/ AskChallenge
    \/ AskSpecial
    \/ Calculate
    \/ GenerateReport
    \/ Dashboard
    \/ SaveReport

Spec == Init /\ [][Next]_vars

\* --------------------------- direct calls of calculate_personalized_impact

CallTypes ==
    {"rural_agricultural", "urban_mixed", "industrial_zone", "coastal_area",
     "island_microgrid"}

CallDemands ==
    {Fin(25000 * k) : k \in -1..MaxDemandK}
    \cup {Fin(220000), Fin(199999), Fin(200000), Inf, NaN}

CallGhis == {Fin(1000 * k) : k \in -1..MaxGhiK} \cup {Inf, NInf, NaN}

CallWinds == {Fin(30), Fin(95), Fin(0 - 10)}

CallProfiles ==
    [type : CallTypes, avg_demand : CallDemands, avg_ghi : CallGhis,
     avg_wind_speed : CallWinds]

InitCalc ==
    /\ pc = "idle"
    /\ community_data = <<>>
    /\ raw = <<>>
    /\ prompts = <<>>
    /\ answered = <<>>
    /\ error = NoError
    /\ locals = NoLocals
    /\ personalized_metrics = NoMetrics
    /\ report = NoReport
    /\ started = <<>>
    /\ completed = <<>>
    /\ shown = FALSE
    /\ saved = FALSE
    /\ earlier = NoCall

\* genai.calculate_personalized_impact(profile), on the constructed object
DirectCall ==
    /\ pc = "idle"
    /\ \E p \in CallProfiles :
        LET r == calculate_personalized_impact(p)
        IN  /\ community_data' = p
            /\ locals' = [set |-> TRUE] @@ r.locals
            /\ personalized_metrics' = r.metrics
            /\ pc' = IF r.ok THEN "returned" ELSE "call_raised"
            /\ error' = IF r.ok THEN NoError ELSE [exc |-> r.exc, stage |-> "calc"]
    /\ UNCHANGED <<raw, prompts, answered, earlier, report, started, completed, shown, saved>>

NextCalc == DirectCall

SpecCalc == InitCalc /\ [][NextCalc]_vars

\* ------------------------------------ two calls on the same object

PairTypes == {"rural_agricultural", "industrial_zone", "island_microgrid"}

PairDemands == {Fin(0), Fin(220000), Fin(0 - 50000), Inf}

PairGhis == {Fin(4000), Fin(8000), Fin(0 - 1000)}

\* the fields calculate_personalized_impact does not read, or reads only
\* for wind_factor
PairOthers ==
    [avg_wind_speed : {Fin(30), Fin(95)},
     peak_demand : {Fin(350000), Fin(400000)},
     name : {DefaultName, <<"G", " ", "V">>},
     region : {DefaultRegion},
     population : {DefaultPopulation},
     season_pattern : {SeasonPattern(<<"4">>), SeasonPattern(<<"1">>)},
     main_challenge : {Challenge(<<"2">>)},
     special_needs : {DefaultSpecialNeeds}]

PairProfile(type, avg_demand, avg_ghi, others) ==
    [type |-> type, avg_demand |-> avg_demand, avg_ghi |-> avg_ghi] @@ others

PairProfiles ==
    {PairProfile(t, d, g, o) :
        t \in PairTypes, d \in PairDemands, g \in PairGhis, o \in PairOthers}

\* the first call: genai.calculate_personalized_impact(p)
FirstCall ==
    /\ pc = "idle"
    /\ \E p \in PairProfiles :
        LET r == calculate_personalized_impact(p)
        IN  /\ community_data' = p
            /\ locals' = [set |-> TRUE] @@ r.locals
            /\ personalized_metrics' = r.metrics
            /\ pc' = IF r.ok THEN "returned" ELSE "call_raised"
            /\ error' = IF r.ok THEN NoError ELSE [exc |-> r.exc, stage |-> "calc"]
    /\ UNCHANGED <<raw, prompts, answered, earlier, report, started, completed,
                   shown, saved>>

\* the caller keeps the first outcome and calls again on the same object
SecondCall ==
    /\ pc \in {"returned", "call_raised"}
    /\ earlier = NoCall
    /\ earlier' =
         [set |-> TRUE, arg |-> community_data, ok |-> (pc = "returned"),
          exc |-> error.exc, metrics |-> personalized_metrics]
    /\ \E p \in PairProfiles :
        LET r == calculate_personalized_impact(p)
        IN  /\ community_data' = p
            /\ locals' = [set |-> TRUE] @@ r.locals
            /\ personalized_metrics' = r.metrics
            /\ pc' = IF r.ok THEN "returned" ELSE "call_raised"
            /\ error' = IF r.ok THEN NoError ELSE [exc |-> r.exc, stage |-> "calc"]
    /\ UNCHANGED <<raw, prompts, answered, report, started, completed, shown, saved>>

NextPair == FirstCall \/ SecondCall

SpecPair == InitCalc /\ [][NextPair]_vars

\* ------------------------------------------------------------------ claims

KnownTypes ==
    {"rural_agricultural", "urban_mixed", "industrial_zone", "coastal_area"}

\* the type factor the specification tabulates, in hundredths
ExpectedTypeFactor(type) ==
    IF type = "urban_mixed" THEN 115
    ELSE IF type = "industrial_zone" THEN 125
    ELSE IF type = "coastal_area" THEN 110
    ELSE 100

ScenarioProfile ==
    [type |-> "rural_agricultural", avg_demand |-> Fin(220000),
     avg_ghi |-> Fin(4000), avg_wind_speed |-> Fin(30)]

\* C1: a direct call with a finite avg_demand d returns the closed-form values:
\* cost_reduction_percent = (24.575 + 14.475) * tf, monthly_savings = d * 0.12 * tf,
\* reliability_improvement = 87.66, peak_reduction = 19.66 * tf,
\* co2_reduction_tons = d * 0.8 * tf, diesel_displacement_liters = d * 15 * tf,
\* renewable_penetration = 68.27 * ghi_factor, payback_months = 24.204; the
\* scenario profile gives 39.05, 2640, 17600, 4 jobs and 24.204; avg_demand = 0
\* gives co2_reduction_tons = 0 and monthly_savings = 0.
C1_ClosedForm ==
    (pc = "returned" /\ community_data.avg_demand.k = "fin") =>
        LET m == personalized_metrics
            d == community_data.avg_demand.v
            tf == ExpectedTypeFactor(community_data.type)
            gf == locals.ghi_factor
        IN  /\ m.cost_reduction_percent = Fin((24575 + 14475) * tf)
            /\ m.monthly_savings_inr = Fin(d * 12 * tf)
            /\ m.reliability_improvement = Fin(87660)
            /\ m.peak_reduction = Fin(19660 * tf)
            /\ m.co2_reduction_tons = Fin(d * 8 * tf)
            /\ m.diesel_displacement_liters = Fin(d * 15 * tf)
            /\ gf.k = "fin" => m.renewable_penetration = Fin(68270 * gf.v)
            /\ gf.k # "fin" => m.renewable_penetration = gf
            /\ m.payback_months = Fin(24204)
            /\ community_data = ScenarioProfile =>
                   /\ m.cost_reduction_percent = Fin(3905000)
                   /\ m.monthly_savings_inr = Fin(264000000)
                   /\ m.co2_reduction_tons = Fin(176000000)
                   /\ m.jobs_created = 4
                   /\ gf = Fin(4000)
                   /\ locals.wind_factor = Fin(30)
            /\ d = 0 => /\ m.co2_reduction_tons = Fin(0)
                        /\ m.monthly_savings_inr = Fin(0)

\* C1 witness: the scenario profile was computed
C1_Witness == pc = "returned" /\ community_data = ScenarioProfile

\* C2 (as claimed): whenever the factors have been computed in a run,
\* 0 <= ghi_factor <= 1.5 and 0 <= wind_factor <= 1.8
C2_FactorsInRange ==
    locals.set =>
        /\ locals.ghi_factor.k = "fin"
        /\ 0 <= locals.ghi_factor.v /\ locals.ghi_factor.v <= 6000
        /\ locals.wind_factor.k = "fin"
        /\ 0 <= locals.wind_factor.v /\ locals.wind_factor.v <= 54

NonNegative(x) == x.k = "inf" \/ (x.k = "fin" /\ x.v >= 0)

FloatMetricKeys ==
    {"cost_reduction_percent", "monthly_savings_inr", "reliability_improvement",
     "renewable_penetration", "peak_reduction", "co2_reduction_tons",
     "diesel_displacement_liters", "payback_months", "prediction_accuracy_pv",
     "prediction_accuracy_wind", "prediction_error_pv", "prediction_error_wind"}

\* C3 (as claimed): every field of the metrics computed in a run is
\* non-negative
C3_MetricsNonNegative ==
    personalized_metrics.set =>
        /\ \A key \in FloatMetricKeys : NonNegative(personalized_metrics[key])
        /\ personalized_metrics.jobs_created >= 0

\* C4: for avg_demand d >= 0 a direct call returns the integer
\* jobs_created = max(3, floor(d / 5000)), which is at least 3, is 3 for
\* d < 20000, and is no more than jobs_created of any larger avg_demand
C4_JobsCreated ==
    (pc = "returned" /\ community_data.avg_demand.k = "fin"
     /\ community_data.avg_demand.v >= 0) =>
        LET d == community_data.avg_demand.v
            jobs == personalized_metrics.jobs_created
            floor == d \div 50000
        IN  /\ jobs \in Nat
            /\ jobs = IF floor > 3 THEN floor ELSE 3
            /\ jobs >= 3
            /\ d < 200000 => jobs = 3
            /\ \A p \in CallProfiles :
                   (p.avg_demand.k = "fin" /\ d <= p.avg_demand.v) =>
                       LET r == calculate_personalized_impact(p)
                       IN  r.ok /\ jobs <= r.metrics.jobs_created

\* C4 witness: a call whose jobs_created is above the minimum
C4_Witness ==
    /\ pc = "returned"
    /\ community_data.avg_demand = Fin(250000)
    /\ personalized_metrics.jobs_created = 5

\* C5: the type factor is 1.0 / 1.15 / 1.25 / 1.1 for the four known types and
\* 1.0 for any other, and a call with an unknown type has the outcome of the
\* call with type rural_agricultural and the same numeric fields
C5_TypeFactor ==
    pc \in {"returned", "call_raised"} =>
        /\ community_data.type = "rural_agricultural" => locals.adjustment = 100
        /\ community_data.type = "urban_mixed" => locals.adjustment = 115
        /\ community_data.type = "industrial_zone" => locals.adjustment = 125
        /\ community_data.type = "coastal_area" => locals.adjustment = 110
        /\ community_data.type \notin KnownTypes =>
               LET r == calculate_personalized_impact(
                            [community_data EXCEPT !.type = "rural_agricultural"])
               IN  /\ locals.adjustment = 100
                   /\ personalized_metrics = r.metrics
                   /\ (pc = "returned") = r.ok

\* C5 witness: a call with an unknown type returned
C5_Witness ==
    /\ pc = "returned"
    /\ community_data.type = "island_microgrid"
    /\ community_data.avg_demand = Fin(220000)

\* C6 (as claimed): calculate_personalized_impact never raises on a profile
\* that get_user_input returned, and returns every field
C6_CalcTotal ==
    /\ ~(pc = "raised" /\ error.stage = "calc")
    /\ "calc" \in {completed[i] : i \in 1..Len(completed)} =>
           personalized_metrics.set

NumericPrompts == {"avg_demand", "peak_demand", "avg_ghi", "avg_wind_speed"}

\* some numeric prompt was answered with non-blank text that is no number
JunkNumeric ==
    \E i \in 1..Len(prompts) : prompts[i] \in NumericPrompts /\ answered[i] = "junk"

IsPrefix(s, t) == Len(s) <= Len(t) /\ \A i \in 1..Len(s) : s[i] = t[i]

\* C7: once a numeric prompt has been answered with text that is no number,
\* the run computes no metrics, renders no report, draws no dashboard and
\* writes no file, asks no prompt twice, and ends with a ValueError inside
\* input collection right after the one prompt that precedes the conversion
C7_JunkNumberIsFatal ==
    JunkNumeric =>
        /\ personalized_metrics = NoMetrics
        /\ locals = NoLocals
        /\ report = NoReport
        /\ ~shown
        /\ ~saved
        /\ started = <<"input">>
        /\ completed = <<>>
        /\ \A i, j \in 1..Len(prompts) : prompts[i] = prompts[j] => i = j
        /\ pc \in {"peak_demand", "avg_wind_speed", "raised"}
        /\ pc = "peak_demand" =>
               prompts[Len(prompts)] = "avg_demand" /\ answered[Len(prompts)] = "junk"
        /\ pc = "avg_wind_speed" =>
               prompts[Len(prompts)] = "avg_ghi" /\ answered[Len(prompts)] = "junk"
        /\ pc = "raised" =>
               /\ error = [exc |-> "ValueError", stage |-> "input"]
               /\ ~ENABLED Next

\* C7 witness: a run that ended on a junk number
C7_Witness ==
    /\ JunkNumeric
    /\ pc = "raised"
    /\ prompts[Len(prompts)] = "avg_wind_speed"

\* the order of the stages the specification gives
StageOrder == <<"input", "calc", "report", "dashboard", "write">>

InputPcs ==
    {"name", "region", "type", "population", "avg_demand", "peak_demand",
     "avg_ghi", "avg_wind_speed", "season", "challenge", "special"}

\* C8: the stages start in the order input, calc, report, dashboard, write,
\* each at most once and only after the one before it has completed, and
\* the file is written only after the dashboard stage has returned (a run
\* that failed wrote no file)
C8_StagesInOrder ==
    /\ IsPrefix(started, StageOrder)
    /\ IsPrefix(completed, StageOrder)
    /\ Len(completed) <= Len(started)
    /\ Len(started) <= Len(completed) + 1
    /\ Len(started) > Len(completed) => pc \in InputPcs \cup {"raised"}
    /\ pc = "raised" => Len(started) = Len(completed) + 1 /\ ~saved
    /\ shown => Len(completed) >= 4
    /\ saved => /\ completed = StageOrder
                /\ shown
                /\ report.set
                /\ personalized_metrics.set
                /\ pc = "done"
    /\ pc = "done" => saved /\ ~ENABLED Next

\* C8 witness: a run that wrote its file
C8_Witness == pc = "done" /\ saved /\ completed = StageOrder

\* the order of the prompts the specification gives
PromptOrder ==
    <<"name", "region", "type", "population", "avg_demand", "peak_demand",
      "avg_ghi", "avg_wind_speed", "season_pattern", "main_challenge",
      "special_needs">>

\* the default the specification gives for a field
ExpectedDefault(field) ==
    CASE field = "name" ->
           <<"S", "a", "m", "p", "l", "e", " ",
             "C", "o", "m", "m", "u", "n", "i", "t", "y">>
      [] field = "region" ->
           <<"U", "n", "k", "n", "o", "w", "n", " ", "R", "e", "g", "i", "o", "n">>
      [] field = "type" -> "rural_agricultural"
      [] field = "population" -> <<"1", "0", ",", "0", "0", "0">>
      [] field = "avg_demand" -> Fin(220000)
      [] field = "peak_demand" -> Fin(350000)
      [] field = "avg_ghi" -> Fin(4000)
      [] field = "avg_wind_speed" -> Fin(30)
      [] field = "season_pattern" -> "Balanced across seasons"
      [] field = "main_challenge" -> "Unreliable grid supply"
      [] field = "special_needs" ->
           <<"G", "e", "n", "e", "r", "a", "l", " ",
             "c", "o", "m", "m", "u", "n", "i", "t", "y", " ",
             "n", "e", "e", "d", "s">>

\* C9: the prompts are asked in the fixed order; a blank response never ends
\* the run, and the field of every blank response holds its literal default,
\* whatever the other responses were; a returned profile has all 11 fields
C9_BlankGivesDefault ==
    /\ IsPrefix(prompts, PromptOrder)
    /\ Len(answered) = Len(prompts)
    /\ \A i \in 1..Len(prompts) :
           answered[i] = "blank" =>
               /\ (pc = "raised" /\ error.stage = "input" /\ i = Len(prompts)) =>
                      JunkNumeric
               /\ prompts[i] \in DOMAIN community_data =>
                      community_data[prompts[i]] = ExpectedDefault(prompts[i])
               /\ (pc \notin InputPcs \cup {"raised"}) =>
                      prompts[i] \in DOMAIN community_data
    /\ pc \notin InputPcs \cup {"raised"} =>
           /\ prompts = PromptOrder
           /\ DOMAIN community_data = {PromptOrder[i] : i \in 1..Len(PromptOrder)}

\* C9 witness: get_user_input returned after eleven blank responses
C9_Witness ==
    /\ pc = "calc"
    /\ Len(answered) = 11
    /\ \A i \in 1..Len(answered) : answered[i] = "blank"

MenuPrompts == {"type", "season_pattern", "main_challenge"}

SeasonLabels ==
    {"Winter dominant (Low solar, stable demand)",
     "Summer dominant (High solar, high cooling demand)",
     "Monsoon dominant (Variable solar, moderate demand)",
     "Balanced across seasons"}

ChallengeLabels ==
    {"High energy costs", "Unreliable grid supply", "Peak demand management",
     "Renewable integration", "Multiple energy challenges"}

\* C10 (as claimed): no response to a menu prompt ends the run with an error,
\* and the type, season and challenge of the profile are among the fixed labels
C10_MenusNeverFail ==
    /\ pc = "raised" => prompts[Len(prompts)] \notin MenuPrompts
    /\ "type" \in DOMAIN community_data => community_data.type \in KnownTypes
    /\ "season_pattern" \in DOMAIN community_data =>
           community_data.season_pattern \in SeasonLabels
    /\ "main_challenge" \in DOMAIN community_data =>
           community_data.main_challenge \in ChallengeLabels

\* the fields the result is claimed to depend on
SameInputs(p, q) ==
    /\ p.type = q.type
    /\ p.avg_demand = q.avg_demand
    /\ p.avg_ghi = q.avg_ghi

\* C11: two calls on the same object whose profiles agree on type,
\* avg_demand and avg_ghi (identical profiles included) have the same
\* outcome: the same metrics, or the same exception, whatever their
\* avg_wind_speed, peak_demand, name and label fields are
C11_DependsOnThreeFields ==
    (earlier.set /\ SameInputs(earlier.arg, community_data)) =>
        /\ earlier.ok = (pc = "returned")
        /\ earlier.exc = error.exc
        /\ earlier.metrics = personalized_metrics

\* C11 witness: two calls that returned, with different wind speed, peak
\* demand, name and season label, and the same three fields
C11_Witness ==
    /\ earlier.set
    /\ pc = "returned"
    /\ SameInputs(earlier.arg, community_data)
    /\ earlier.arg.avg_wind_speed # community_data.avg_wind_speed
    /\ locals.wind_factor = Fin(54)
    /\ earlier.arg.peak_demand # community_data.peak_demand
    /\ earlier.arg.name # community_data.name
    /\ earlier.arg.season_pattern # community_data.season_pattern

\* how many replacement fields of the templates show a metric by itself
\* (lines 207-221 and 245-325 of the source, read off the text; the mean of
\* line 262 and the product of line 312 are not counted)
ExpectedCount(key) ==
    CASE key = "cost_reduction_percent" -> 2
      [] key = "monthly_savings_inr" -> 2
      [] key = "reliability_improvement" -> 2
      [] key = "renewable_penetration" -> 4
      [] key = "peak_reduction" -> 1
      [] key = "co2_reduction_tons" -> 3
      [] key = "diesel_displacement_liters" -> 1
      [] key = "jobs_created" -> 4
      [] key = "payback_months" -> 1
      [] key = "prediction_accuracy_pv" -> 3
      [] key = "prediction_accuracy_wind" -> 3
      [] key = "prediction_error_pv" -> 1
      [] key = "prediction_error_wind" -> 1

\* the places of the rendered report that show a metric
ShownAt(key) ==
    {i \in 1..Len(report.slots) :
        report.slots[i].src = "metrics" /\ report.slots[i].key = key}

\* C12: every field of the metrics record is interpolated at least once in
\* the rendered report (the embedded technical analysis included), the same
\* number of times whatever the profile, and what is shown is the metric
C12_EveryMetricInReport ==
    report.set =>
        /\ DOMAIN personalized_metrics \ {"set"} = FloatMetricKeys \cup {"jobs_created"}
        /\ \A key \in DOMAIN personalized_metrics \ {"set"} :
               /\ Cardinality(ShownAt(key)) >= 1
               /\ Cardinality(ShownAt(key)) = ExpectedCount(key)
               /\ key \in report.interpolated
        /\ \A i \in ShownAt("jobs_created") :
               report.slots[i].text.n = personalized_metrics.jobs_created
        /\ \A i \in ShownAt("payback_months") : report.slots[i].text.n = 24
        /\ \A i \in ShownAt("reliability_improvement") : report.slots[i].text.n = 88
        /\ \A i \in ShownAt("peak_reduction") :
               report.slots[i].text.n =
                   (IF community_data.type = "rural_agricultural" THEN 20 ELSE 23)
        /\ \A i \in ShownAt("monthly_savings_inr") :
               (community_data.avg_demand = Fin(220000)
                /\ community_data.type = "rural_agricultural") =>
                   report.slots[i].text.n = 2640
        /\ Len(report.slots) = 51

\* C12 witness: a report rendered for a profile that is not the default one
C12_Witness ==
    /\ report.set
    /\ community_data.type = "urban_mixed"
    /\ community_data.avg_demand = Fin(0 - 50000)
    /\ community_data.avg_ghi = Fin(8000)

====
